---- MODULE Spec2Model ----
(***************************************************************************)
(* The three crawler jobs of InvestmentDashboard                           *)
(*   fx_rate_crawler.py     (job "fx":     USD/VND and USD/CNY, HTML table) *)
(*   sbv_rate_crawler.py    (job "sbv":    O/N and 1W rates, HTML table)    *)
(*   margin_room_crawler.py (job "margin": margin room per stock code)      *)
(* as state machines over a PostgreSQL store.  A text is a sequence of      *)
(* one-character strings, so that replace(), upper(), `in`, split() and     *)
(* float() are computed character by character as Python computes them.     *)
(***************************************************************************)
EXTENDS Integers, Sequences, FiniteSets, TLC

\* ------------------------------------------------------------------ bounds
MaxRows == 3        \* rows of the first <table> of a fetched page
MaxList == 3        \* characters of the STOCK_LIST environment value
MaxTime == 1        \* readings of datetime.now() are 0..MaxTime
MaxBatch == 2       \* rows of one save_margin_details call in SpecDb

\* ------------------------------------------------------------------ texts
Digits == {"0", "1", "2", "3", "4", "5", "6", "7", "8", "9"}

DigitVal(c) ==
    CASE c = "0" -> 0 [] c = "1" -> 1 [] c = "2" -> 2 [] c = "3" -> 3
      [] c = "4" -> 4 [] c = "5" -> 5 [] c = "6" -> 6 [] c = "7" -> 7
      [] c = "8" -> 8 [] c = "9" -> 9

\* str.replace(a, b) for one-character a and b
Replace(s, a, b) == [i \in 1..Len(s) |-> IF s[i] = a THEN b ELSE s[i]]

\* str.replace(a, '') for a one-character a
RECURSIVE Strip(_, _)
Strip(s, a) ==
    IF s = <<>> THEN <<>>
    ELSE IF Head(s) = a THEN Strip(Tail(s), a)
         ELSE <<Head(s)>> \o Strip(Tail(s), a)

UpperChar(c) ==
    CASE c = "a" -> "A" [] c = "b" -> "B" [] c = "c" -> "C" [] c = "d" -> "D"
      [] c = "e" -> "E" [] c = "f" -> "F" [] c = "g" -> "G" [] c = "h" -> "H"
      [] c = "i" -> "I" [] c = "j" -> "J" [] c = "k" -> "K" [] c = "l" -> "L"
      [] c = "m" -> "M" [] c = "n" -> "N" [] c = "o" -> "O" [] c = "p" -> "P"
      [] c = "q" -> "Q" [] c = "r" -> "R" [] c = "s" -> "S" [] c = "t" -> "T"
      [] c = "u" -> "U" [] c = "v" -> "V" [] c = "w" -> "W" [] c = "x" -> "X"
      [] c = "y" -> "Y" [] c = "z" -> "Z"
      [] OTHER -> c

\* str.upper()
Upper(s) == [i \in 1..Len(s) |-> UpperChar(s[i])]

\* pat in s
Contains(s, pat) ==
    \E i \in 1..(Len(s) - Len(pat) + 1) : SubSeq(s, i, i + Len(pat) - 1) = pat

\* ' '.join(cells)
RECURSIVE Join(_)
Join(cells) ==
    IF cells = <<>> THEN <<>>
    ELSE IF Len(cells) = 1 THEN cells[1]
         ELSE cells[1] \o <<" ">> \o Join(Tail(cells))

\* str.strip() of blanks
RECURSIVE LStrip(_)
LStrip(s) == IF s # <<>> /\ Head(s) = " " THEN LStrip(Tail(s)) ELSE s

RECURSIVE RStrip(_)
RStrip(s) ==
    IF s # <<>> /\ s[Len(s)] = " " THEN RStrip(SubSeq(s, 1, Len(s) - 1)) ELSE s

StripBlanks(s) == RStrip(LStrip(s))

\* str.split(sep) for a one-character sep: always at least one piece
RECURSIVE Split(_, _)
Split(s, sep) ==
    IF \A i \in 1..Len(s) : s[i] # sep THEN <<s>>
    ELSE LET p == CHOOSE i \in 1..Len(s) :
                      s[i] = sep /\ \A j \in 1..(i - 1) : s[j] # sep
         IN  <<SubSeq(s, 1, p - 1)>> \o Split(SubSeq(s, p + 1, Len(s)), sep)

\* ----------------------------------------------------------------- numbers
\* A float is kept exactly: n / 10^d with no trailing zero in the fraction.
None == [t |-> "None"]
ValueError == [t |-> "ValueError"]

RECURSIVE Normal(_, _)
Normal(n, d) ==
    IF d > 0 /\ n % 10 = 0 THEN Normal(n \div 10, d - 1)
    ELSE [t |-> "num", n |-> n, d |-> d]

Num(n) == Normal(n, 0)

RECURSIVE DigitsVal(_)
DigitsVal(s) ==
    IF s = <<>> THEN 0
    ELSE 10 * DigitsVal(SubSeq(s, 1, Len(s) - 1)) + DigitVal(s[Len(s)])

Unsigned(s) == IF s # <<>> /\ Head(s) \in {"+", "-"} THEN Tail(s) ELSE s

\* float(s) accepts [sign] digits [. digits] with at least one digit (the
\* texts of the model hold no exponent, underscore, inf or nan)
FloatOk(s) ==
    LET u == Unsigned(s)
    IN  /\ \A i \in 1..Len(u) : u[i] \in Digits \cup {"."}
        /\ Cardinality({i \in 1..Len(u) : u[i] = "."}) <= 1
        /\ \E i \in 1..Len(u) : u[i] \in Digits

FloatOf(s) ==
    LET u == Unsigned(s)
        dots == {i \in 1..Len(u) : u[i] = "."}
        d == IF dots = {} THEN 0 ELSE Len(u) - (CHOOSE i \in dots : TRUE)
        m == DigitsVal(Strip(u, "."))
    IN  IF s # <<>> /\ Head(s) = "-" THEN Normal(0 - m, d) ELSE Normal(m, d)

\* parse_rate: float(value.replace(',', '.')), ValueError re-raised
parse_rate(value) ==
    LET v == Replace(value, ",", ".")
    IN  IF FloatOk(v) THEN FloatOf(v) ELSE ValueError

\* ------------------------------------------------------- HTML table scans
\* A row is the sequence of its cell texts as get_text(strip=True) gives them:
\* the <td> cells for job "fx", the <th> and <td> cells for job "sbv".
L_USD == <<"U", "S", "D">>
L_VND == <<"V", "N", "D">>
L_CNY == <<"C", "N", "Y">>
L_USD_VND == <<"U", "S", "D", "/", "V", "N", "D">>
L_USD_CNY == <<"U", "S", "D", "/", "C", "N", "Y">>
L_ON == <<"O", "/", "N">>
L_1W == <<"1", "W">>
\* the literal '1 Tuáº§n' of sbv_rate_crawler.py line 45, one element per character
L_1TUAN == <<"1", " ", "T", "u", "a_acute", "ordm", "sect", "n">>

\* fx_rate_crawler.py line 44 and line 46: the label tests on the uppercased row text
MatchUsdVnd(text) ==
    Contains(text, L_USD_VND) \/ (Contains(text, L_USD) /\ Contains(text, L_VND))

MatchUsdCny(text) ==
    Contains(text, L_USD_CNY) \/ (Contains(text, L_USD) /\ Contains(text, L_CNY))

\* sbv_rate_crawler.py line 43 and line 45: the label tests on the first cell
MatchOn(cell) == Contains(cell, L_ON)

Match1w(cell) == Contains(cell, L_1W) \/ Contains(cell, L_1TUAN)

LastCell(cells) == cells[Len(cells)]

\* cells[1] of a row
SecondCell(cells) == cells[2]

\* One iteration of the loop of fetch_fx_rates (lines 39-49) on a row with
\* cells, from the values a (usd_vnd) and b (usd_cny) found so far.
FxRowStep(cells, a, b) ==
    LET text == Upper(Join(cells))
    IN  IF cells = <<>> THEN [a |-> a, b |-> b, exc |-> "none", brk |-> FALSE]
        ELSE IF MatchUsdVnd(text) /\ Len(cells) > 1
        THEN LET v == parse_rate(SecondCell(cells))
             IN  IF v = ValueError
                 THEN [a |-> a, b |-> b, exc |-> "ValueError", brk |-> FALSE]
                 ELSE [a |-> v, b |-> b, exc |-> "none", brk |-> b # None]
        ELSE IF MatchUsdCny(text) /\ Len(cells) > 1
        THEN LET v == parse_rate(SecondCell(cells))
             IN  IF v = ValueError
                 THEN [a |-> a, b |-> b, exc |-> "ValueError", brk |-> FALSE]
                 ELSE [a |-> a, b |-> v, exc |-> "none", brk |-> a # None]
        ELSE [a |-> a, b |-> b, exc |-> "none", brk |-> a # None /\ b # None]

\* One iteration of the loop of fetch_rates (lines 39-48), a is on_rate and
\* b is onew_rate; cells[1] of a one-cell row raises IndexError.
SbvRowStep(cells, a, b) ==
    IF cells = <<>> THEN [a |-> a, b |-> b, exc |-> "none", brk |-> FALSE]
    ELSE IF MatchOn(cells[1])
    THEN IF Len(cells) < 2
         THEN [a |-> a, b |-> b, exc |-> "IndexError", brk |-> FALSE]
         ELSE LET v == parse_rate(SecondCell(cells))
              IN  IF v = ValueError
                  THEN [a |-> a, b |-> b, exc |-> "ValueError", brk |-> FALSE]
                  ELSE [a |-> v, b |-> b, exc |-> "none", brk |-> b # None]
    ELSE IF Match1w(cells[1])
    THEN IF Len(cells) < 2
         THEN [a |-> a, b |-> b, exc |-> "IndexError", brk |-> FALSE]
         ELSE LET v == parse_rate(SecondCell(cells))
              IN  IF v = ValueError
                  THEN [a |-> a, b |-> b, exc |-> "ValueError", brk |-> FALSE]
                  ELSE [a |-> a, b |-> v, exc |-> "none", brk |-> a # None]
    ELSE [a |-> a, b |-> b, exc |-> "none", brk |-> a # None /\ b # None]

\* The same loop keeping the first value found for a field
RowStepKeepFirst(j, cells, a, b) ==
    LET st == IF j = "fx" THEN FxRowStep(cells, a, b) ELSE SbvRowStep(cells, a, b)
    IN  [st EXCEPT !.a = IF a # None THEN a ELSE @,
                   !.b = IF b # None THEN b ELSE @]

RowStep(j, cells, a, b) ==
    IF j = "fx" THEN FxRowStep(cells, a, b) ELSE SbvRowStep(cells, a, b)

\* The rows a fetched page may hold.
FxRows ==
    { <<L_USD_VND, <<"1", ",", "5">>, <<"8">>>>,
      <<L_USD_CNY, <<"2">>>>,
      <<<<"u", "s", "d", " ", "v", "n", "d">>, <<"3">>>>,
      <<L_USD, <<"7", ",", "1">>, L_CNY>>,
      <<<<"E", "U", "R", "/", "V", "N", "D">>, <<"9">>>>,
      <<L_USD_VND>>,
      <<>>,
      <<L_USD_VND, <<"1", ".", "2", "3", "4", ",", "5", "6">>>>,
      <<L_USD_CNY, <<"n", "/", "a">>>>,
      <<L_USD_CNY, <<"5">>, L_VND>> }

SbvRows ==
    { <<L_ON, <<"4", ",", "5">>, <<"8">>>>,
      <<L_1W, <<"5">>>>,
      <<<<"L", "S", " ">> \o L_1TUAN, <<"6">>>>,
      <<L_ON>>,
      <<<<"3", "M">>, <<"7">>>>,
      <<>>,
      <<L_ON, <<"1", ".", "2", "3", "4", ",", "5", "6">>>>,
      <<L_1W, <<"n", "/", "a">>>>,
      <<<<"o", "/", "n">>, <<"8">>>>,
      <<L_ON \o <<" ">> \o L_1W, <<"9">>>> }

RowsOf(j) == IF j = "fx" THEN FxRows ELSE SbvRows

SeqsUpTo(S, n) == UNION {[1..k -> S] : k \in 0..n}

\* ------------------------------------------------------ margin room payload
\* The body of a FireAnt response: an HTTP or transport error, a text that is
\* no JSON, a JSON array, or a JSON object with the four fields of interest,
\* each absent or holding a JSON value.
Absent == [t |-> "absent"]
Str(s) == [t |-> "str", s |-> s]

\* dict.get(key): None for an absent key
Get(v) == IF v = Absent THEN None ELSE v

\* Python truth value of a JSON value
Falsy(v) ==
    \/ v = None
    \/ (v.t = "num" /\ v.n = 0)
    \/ (v.t = "str" /\ v.s = <<>>)

\* x or y
Or(x, y) == IF Falsy(x) THEN y ELSE x

\* fetch_margin_data (lines 26-38) on a response
fetch_margin_data(resp) ==
    IF resp.kind = "http_error" THEN [t |-> "exc", e |-> "RequestException"]
    ELSE IF resp.kind = "not_json" THEN [t |-> "exc", e |-> "JSONDecodeError"]
    ELSE IF resp.kind = "array" THEN [t |-> "exc", e |-> "AttributeError"]
    ELSE LET margin_room == Or(Get(resp.marginRoom), Get(resp.margin_room))
             sector == Or(Get(resp.industryName), Get(resp.sector))
         IN  IF margin_room = None THEN [t |-> "exc", e |-> "RuntimeError"]
             ELSE [t |-> "ok", margin_room |-> margin_room,
                   sector |-> Or(sector, Str(<<>>))]

Objects ==
    [kind : {"object"},
     marginRoom : {Absent, None, Num(0), Num(5)},
     margin_room : {Absent, Num(0), Num(7)},
     industryName : {Absent, Str(<<>>), Str(<<"B">>)},
     sector : {Absent, Str(<<"T">>)}]

Responses ==
    {[kind |-> "http_error"], [kind |-> "not_json"], [kind |-> "array"]}
        \cup Objects

\* main, lines 71-73: the stock codes of a non-empty STOCK_LIST
RECURSIVE StrippedNonEmpty(_)
StrippedNonEmpty(pieces) ==
    IF pieces = <<>> THEN <<>>
    ELSE IF StripBlanks(Head(pieces)) # <<>>
         THEN <<StripBlanks(Head(pieces))>> \o StrippedNonEmpty(Tail(pieces))
         ELSE StrippedNonEmpty(Tail(pieces))

StockCodes(stock_list) == StrippedNonEmpty(Split(stock_list, ","))

StockLists == SeqsUpTo({"A", ",", " "}, MaxList)

\* int(os.getenv('DB_PORT', 5432)): the default is the int 5432; a text must
\* be an optionally signed run of digits
IntOk(s) ==
    LET u == Unsigned(StripBlanks(s))
    IN  u # <<>> /\ \A i \in 1..Len(u) : u[i] \in Digits

PortOk(port) == ~port.set \/ IntOk(port.val)

Ports ==
    { [set |-> FALSE, val |-> <<>>],
      [set |-> TRUE, val |-> <<"5", "4", "3", "3">>],
      [set |-> TRUE, val |-> <<"a", "b", "c">>] }

\* ------------------------------------------------------------------ store
\* A table is a set of rows [key, val]: key the primary-key columns, val the
\* other columns.  A float written to a REAL column is kept exactly here.
Jobs == {"fx", "sbv", "margin"}
Tables == {"fx_rate", "on_rate", "room_margin_detail"}

TableOf(j) ==
    CASE j = "fx" -> "fx_rate"
      [] j = "sbv" -> "on_rate"
      [] j = "margin" -> "room_margin_detail"

KeysOf(S) == {x.key : x \in S}

\* DO UPDATE SET <every non-key column> = EXCLUDED.<column>
SetColsFirstOnly(old, new) == [old EXCEPT !.val = <<new.val[1], old.val[2]>>]

SetCols(old, new) == [old EXCEPT !.val = new.val]

InsertOnly(S, row) == S \cup {row}

\* INSERT ... ON CONFLICT (<primary key>) DO UPDATE SET ...
UpsertRow(S, row) ==
    IF row.key \in KeysOf(S)
    THEN {IF x.key = row.key THEN SetCols(x, row) ELSE x : x \in S}
    ELSE S \cup {row}

RECURSIVE ApplyAll(_, _)
ApplyAll(S, rows) ==
    IF rows = <<>> THEN S ELSE ApplyAll(UpsertRow(S, Head(rows)), Tail(rows))

Times == 0..MaxTime
Runs == {1, 2}

\* ------------------------------------------------------------------ state
VARIABLES
    job,      \* job[r]: the crawler that run r executes
    pc,       \* pc[r]: where run r stands
    env,      \* env[r]: the DB_PORT that run r has read from its environment
    clock,    \* the last reading of datetime.now()
    doc,      \* doc[r]: the rows of the first table of the fetched page
    idx,      \* idx[r]: the number of rows the loop has taken
    fa,       \* fa[r]: usd_vnd (fx), on_rate (sbv)
    fb,       \* fb[r]: usd_cny (fx), onew_rate (sbv)
    day,      \* day[r]: date of fetch_rates
    exc,      \* exc[r]: the exception fetch raised, "none" if none
    codes,    \* codes[r]: stock_codes of main (margin)
    ci,       \* ci[r]: the number of stock codes the loop has taken
    last,     \* last[r]: the response and the outcome of fetch_margin_data(code)
    batch,    \* batch[r]: the rows main hands to save_*
    log,      \* log[r]: what run r has logged
    conn,     \* conn[r]: "none", "open" or "closed"
    txw,      \* txw[r]: rows upserted in the open transaction of run r
    txc,      \* txc[r]: the open transaction of run r created the table
    upi,      \* upi[r]: the number of rows of batch[r] executed
    err,      \* err[r]: the exception save_* raised, "none" if none
    store,    \* store[t]: the committed rows of table t
    exists,   \* exists[t]: table t exists (committed)
    saves,    \* saves[r]: the number of save_* calls of the current cron_job
    latest,   \* latest[t]: the rows of the commits so far, last commit per key
    applied,  \* applied[r]: rows of the current save_* call visible in store
    overlap   \* two connections have been open at the same time

scanv == <<doc, idx, fa, fb, day, exc>>
marginv == <<codes, ci, last>>
dbv == <<conn, txw, txc, upi, err, store, exists>>
histv == <<saves, latest, applied, overlap>>
vars == <<job, pc, env, clock, scanv, marginv, batch, log, dbv, histv>>

NoResp == [resp |-> [kind |-> "none"], out |-> [t |-> "none"]]
NoEnv == [port |-> [set |-> FALSE, val |-> <<>>]]
Row(key, val) == [key |-> key, val |-> val]
Log(r, msg) == log' = [log EXCEPT ![r] = Append(@, msg)]
Goto(r, where) == pc' = [pc EXCEPT ![r] = where]
Other(r) == Runs \ {r}

\* ------------------------------------------------- cron_job and main, fetch
\* cron_job: logger.info('Start crawling ...'), then main()
CronJob(r) ==
    /\ pc[r] = "cron"
    /\ Log(r, "start")
    /\ Goto(r, "main")
    /\ UNCHANGED <<job, env, clock, scanv, marginv, batch, dbv, histv>>

\* requests.get / raise_for_status raises (fx and sbv)
FetchFail(r) ==
    /\ pc[r] = "main" /\ job[r] \in {"fx", "sbv"}
    /\ exc' = [exc EXCEPT ![r] = "RequestException"]
    /\ Goto(r, "raised")
    /\ UNCHANGED <<job, env, clock, doc, idx, fa, fb, day, marginv, batch, log,
                   dbv, histv>>

\* soup.find('table') finds no table
FetchNoTable(r) ==
    /\ pc[r] = "main" /\ job[r] \in {"fx", "sbv"}
    /\ exc' = [exc EXCEPT ![r] = "RuntimeError"]
    /\ Goto(r, "raised")
    /\ UNCHANGED <<job, env, clock, doc, idx, fa, fb, day, marginv, batch, log,
                   dbv, histv>>

\* The page holds a table: its rows; both values start as None; fetch_rates
\* reads the date before the loop.
Fetch(r) ==
    /\ pc[r] = "main" /\ job[r] \in {"fx", "sbv"}
    /\ \E rows \in SeqsUpTo(RowsOf(job[r]), MaxRows) :
          /\ doc' = [doc EXCEPT ![r] = rows]
          /\ Goto(r, IF rows = <<>> THEN "scanned" ELSE "scan")
    /\ idx' = [idx EXCEPT ![r] = 0]
    /\ fa' = [fa EXCEPT ![r] = None]
    /\ fb' = [fb EXCEPT ![r] = None]
    /\ IF job[r] = "sbv"
       THEN \E t \in clock..MaxTime :
               clock' = t /\ day' = [day EXCEPT ![r] = t]
       ELSE UNCHANGED <<clock, day>>
    /\ UNCHANGED <<job, env, exc, marginv, batch, log, dbv, histv>>

\* One iteration of the for loop over the rows.
ScanRow(r) ==
    /\ pc[r] = "scan" /\ idx[r] < Len(doc[r])
    /\ LET st == RowStep(job[r], doc[r][idx[r] + 1], fa[r], fb[r])
       IN  /\ idx' = [idx EXCEPT ![r] = @ + 1]
           /\ fa' = [fa EXCEPT ![r] = st.a]
           /\ fb' = [fb EXCEPT ![r] = st.b]
           /\ exc' = [exc EXCEPT ![r] = st.exc]
           /\ Goto(r, IF st.exc # "none" THEN "raised"
                      ELSE IF st.brk \/ idx[r] + 1 = Len(doc[r]) THEN "scanned"
                      ELSE "scan")
    /\ UNCHANGED <<job, env, clock, doc, day, marginv, batch, log, dbv, histv>>

\* After the loop: RuntimeError if a value is missing, else the return of
\* (datetime.now(), usd_vnd, usd_cny) or (date, on_rate, onew_rate) to main.
AfterLoop(r) ==
    /\ pc[r] = "scanned"
    /\ IF fa[r] = None \/ fb[r] = None
       THEN /\ exc' = [exc EXCEPT ![r] = "RuntimeError"]
            /\ Goto(r, "raised")
            /\ UNCHANGED <<clock, doc, idx, fa, fb, day, batch>>
       ELSE /\ IF job[r] = "fx"
               THEN \E t \in clock..MaxTime :
                       /\ clock' = t
                       /\ batch' = [batch EXCEPT ![r] =
                                       <<Row(<<t>>, <<fa[r], fb[r]>>)>>]
               ELSE /\ clock' = clock
                    /\ batch' = [batch EXCEPT ![r] =
                                    <<Row(<<day[r]>>, <<fa[r], fb[r]>>)>>]
            /\ doc' = [doc EXCEPT ![r] = <<>>]
            /\ idx' = [idx EXCEPT ![r] = 0]
            /\ fa' = [fa EXCEPT ![r] = None]
            /\ fb' = [fb EXCEPT ![r] = None]
            /\ day' = [day EXCEPT ![r] = 0]
            /\ UNCHANGED exc
            /\ Goto(r, "params")
    /\ UNCHANGED <<job, env, marginv, log, dbv, histv>>

FallThroughAfterFetchFailure(r) == Goto(r, "params")

ReturnAfterFetchFailure(r) == Goto(r, "finish")

\* main, except Exception around the fetch: logger.exception, return (doc,
\* idx, fa, fb and exc keep what the failed fetch had reached)
MainExceptFetch(r) ==
    /\ pc[r] = "raised"
    /\ Log(r, "fetch_failed")
    /\ ReturnAfterFetchFailure(r)
    /\ UNCHANGED <<job, env, clock, scanv, marginv, batch, dbv, histv>>

\* main of fx and sbv: conn_params; int() of a malformed DB_PORT raises
\* ValueError outside every try, through main and cron_job
ConnParams(r) ==
    /\ pc[r] = "params"
    /\ \E p \in Ports :
          /\ env' = [env EXCEPT ![r].port = p]
          /\ Goto(r, IF PortOk(p) THEN "connect" ELSE "crashed")
    /\ UNCHANGED <<job, clock, scanv, marginv, batch, log, dbv, histv>>

\* main of margin, lines 71-84: STOCK_LIST, conn_params, rows = []
MainMargin(r) ==
    /\ pc[r] = "main" /\ job[r] = "margin"
    /\ \E sl \in StockLists, p \in Ports :
          IF sl = <<>>
          THEN /\ p = NoEnv.port
               /\ UNCHANGED env
               /\ Log(r, "no_stock_list")
               /\ Goto(r, "finish")
               /\ UNCHANGED codes
          ELSE /\ env' = [env EXCEPT ![r].port = p]
               /\ codes' = [codes EXCEPT ![r] = StockCodes(sl)]
               /\ Goto(r, IF PortOk(p) THEN "loop" ELSE "crashed")
               /\ UNCHANGED log
    /\ UNCHANGED <<job, clock, scanv, ci, last, batch, dbv, histv>>

\* The loop over stock_codes calls fetch_margin_data(code) for the next code
FetchMargin(r) ==
    /\ pc[r] = "loop" /\ ci[r] < Len(codes[r])
    /\ \E resp \in Responses :
          last' = [last EXCEPT ![r] = [resp |-> resp, out |-> fetch_margin_data(resp)]]
    /\ Goto(r, "fetched")
    /\ UNCHANGED <<job, env, clock, scanv, codes, ci, batch, log, dbv, histv>>

\* The rest of the iteration: the row is appended with datetime.now(), or
\* the exception is logged (except Exception) and the loop goes on.
LoopBody(r) ==
    /\ pc[r] = "fetched"
    /\ IF last[r].out.t = "ok"
       THEN \E t \in clock..MaxTime :
               /\ clock' = t
               /\ batch' = [batch EXCEPT ![r] = Append(@,
                     Row(<<t, codes[r][ci[r] + 1]>>,
                         <<last[r].out.margin_room, last[r].out.sector>>))]
               /\ Log(r, "fetched")
       ELSE /\ Log(r, "margin_failed")
            /\ UNCHANGED <<clock, batch>>
    /\ last' = [last EXCEPT ![r] = NoResp]
    /\ ci' = [ci EXCEPT ![r] = @ + 1]
    /\ Goto(r, "loop")
    /\ UNCHANGED <<job, env, scanv, codes, dbv, histv>>

\* After the loop: if rows: save_margin_details(conn_params, rows)
AfterLoopMargin(r) ==
    /\ pc[r] = "loop" /\ ci[r] = Len(codes[r])
    /\ Goto(r, IF batch[r] # <<>> THEN "connect" ELSE "finish")
    /\ UNCHANGED <<job, env, clock, scanv, marginv, batch, log, dbv, histv>>

\* --------------------------------------------------------------- save_*
\* PostgreSQL as psycopg2 drives it: connect() opens no autocommit session,
\* the first execute begins a transaction (READ COMMITTED), commit() makes
\* its writes visible at once, close() without commit rolls back.  A row
\* written by an open transaction is locked against the others until that
\* transaction ends.
Locked(r, key) ==
    \E s \in Other(r) : conn[s] = "open" /\ \E i \in 1..Len(txw[s]) : txw[s][i].key = key

Creating(r) == \E s \in Other(r) : conn[s] = "open" /\ txc[s]

\* psycopg2.connect(**conn_params) succeeds
Connect(r) ==
    /\ pc[r] = "connect"
    /\ conn' = [conn EXCEPT ![r] = "open"]
    /\ saves' = [saves EXCEPT ![r] = @ + 1]
    /\ overlap' = (overlap \/ \E s \in Other(r) : conn[s] = "open")
    /\ upi' = [upi EXCEPT ![r] = 0]
    /\ Goto(r, "create")
    /\ UNCHANGED <<job, env, clock, scanv, marginv, batch, log, txw, txc, err,
                   store, exists, latest, applied>>

\* psycopg2.connect raises (before the try: nothing to close)
ConnectFail(r) ==
    /\ pc[r] = "connect"
    /\ saves' = [saves EXCEPT ![r] = @ + 1]
    /\ err' = [err EXCEPT ![r] = "OperationalError"]
    /\ Goto(r, "save_raised")
    /\ UNCHANGED <<job, env, clock, scanv, marginv, batch, log, conn, txw, txc,
                   upi, store, exists, latest, applied, overlap>>

\* CREATE TABLE IF NOT EXISTS: nothing to do for a table that exists; a
\* table that another open transaction is creating makes the statement wait
\* for that transaction; else the table is created in this transaction.
CreateTable(r) ==
    /\ pc[r] = "create"
    /\ IF exists[TableOf(job[r])] THEN Goto(r, "upsert") /\ UNCHANGED txc
       ELSE IF Creating(r) THEN Goto(r, "create_wait") /\ UNCHANGED txc
       ELSE Goto(r, "upsert") /\ txc' = [txc EXCEPT ![r] = TRUE]
    /\ UNCHANGED <<job, env, clock, scanv, marginv, batch, log, conn, txw, upi,
                   err, store, exists, histv>>

\* The waiting CREATE TABLE goes on when the other transaction has ended: if
\* that one committed, the catalog entry of the table is a duplicate key
\* (unique violation); if it rolled back, the table is created here.
CreateResume(r) ==
    /\ pc[r] = "create_wait" /\ ~Creating(r)
    /\ IF exists[TableOf(job[r])]
       THEN /\ err' = [err EXCEPT ![r] = "UniqueViolation"]
            /\ Goto(r, "close")
            /\ UNCHANGED txc
       ELSE /\ txc' = [txc EXCEPT ![r] = TRUE]
            /\ Goto(r, "upsert")
            /\ UNCHANGED err
    /\ UNCHANGED <<job, env, clock, scanv, marginv, batch, log, conn, txw, upi,
                   store, exists, histv>>

\* A statement or the commit fails (server or connection error)
ExecFail(r) ==
    /\ pc[r] \in {"create", "upsert", "commit"}
    /\ err' = [err EXCEPT ![r] = "OperationalError"]
    /\ Goto(r, "close")
    /\ UNCHANGED <<job, env, clock, scanv, marginv, batch, log, conn, txw, txc,
                   upi, store, exists, histv>>

\* The same statement on a connection in autocommit mode
UpsertAutocommit(r) ==
    /\ pc[r] = "upsert" /\ upi[r] < Len(batch[r])
    /\ ~Locked(r, batch[r][upi[r] + 1].key)
    /\ store' = [store EXCEPT ![TableOf(job[r])] = UpsertRow(@, batch[r][upi[r] + 1])]
    /\ applied' = [applied EXCEPT ![r] = Append(@, batch[r][upi[r] + 1])]
    /\ upi' = [upi EXCEPT ![r] = @ + 1]
    /\ Goto(r, IF upi[r] + 1 = Len(batch[r]) THEN "commit" ELSE "upsert")
    /\ UNCHANGED <<job, env, clock, scanv, marginv, batch, log, conn, txw, txc, err,
                   exists, saves, latest, overlap>>

\* cur.execute(INSERT ... ON CONFLICT ... DO UPDATE ...) of the next row: it
\* waits while another open transaction holds the row of that key
Upsert(r) ==
    /\ pc[r] = "upsert" /\ upi[r] < Len(batch[r])
    /\ ~Locked(r, batch[r][upi[r] + 1].key)
    /\ txw' = [txw EXCEPT ![r] = Append(@, batch[r][upi[r] + 1])]
    /\ upi' = [upi EXCEPT ![r] = @ + 1]
    /\ Goto(r, IF upi[r] + 1 = Len(batch[r]) THEN "commit" ELSE "upsert")
    /\ UNCHANGED <<job, env, clock, scanv, marginv, batch, log, conn, txc, err,
                   store, exists, histv>>

\* Two transactions each waiting for a row the other holds: the server ends
\* one of them with a deadlock error
UpsertDeadlock(r) ==
    /\ pc[r] = "upsert" /\ upi[r] < Len(batch[r])
    /\ \E s \in Other(r) :
          /\ conn[s] = "open" /\ pc[s] = "upsert" /\ upi[s] < Len(batch[s])
          /\ \E i \in 1..Len(txw[s]) : txw[s][i].key = batch[r][upi[r] + 1].key
          /\ \E i \in 1..Len(txw[r]) : txw[r][i].key = batch[s][upi[s] + 1].key
    /\ err' = [err EXCEPT ![r] = "DeadlockDetected"]
    /\ Goto(r, "close")
    /\ UNCHANGED <<job, env, clock, scanv, marginv, batch, log, conn, txw, txc,
                   upi, store, exists, histv>>

\* The latest committed row per key after a commit of rows
LatestAfter(L, rows) ==
    {x \in L : \A i \in 1..Len(rows) : rows[i].key # x.key}
        \cup {rows[i] : i \in {i \in 1..Len(rows) :
                                \A j \in (i + 1)..Len(rows) : rows[j].key # rows[i].key}}

\* conn.commit(): every write of the transaction becomes visible; the margin
\* job then logs 'Saved %d margin records'
Commit(r) ==
    /\ pc[r] = "commit"
    /\ store' = [store EXCEPT ![TableOf(job[r])] = ApplyAll(@, txw[r])]
    /\ exists' = [exists EXCEPT ![TableOf(job[r])] = @ \/ txc[r]]
    /\ latest' = [latest EXCEPT ![TableOf(job[r])] = LatestAfter(@, batch[r])]
    /\ applied' = [applied EXCEPT ![r] = @ \o txw[r]]
    /\ IF job[r] = "margin" THEN Log(r, "saved") ELSE UNCHANGED log
    /\ txw' = [txw EXCEPT ![r] = <<>>]
    /\ txc' = [txc EXCEPT ![r] = FALSE]
    /\ Goto(r, "close")
    /\ UNCHANGED <<job, env, clock, scanv, marginv, batch, conn, upi, err, saves,
                   overlap>>

\* finally: conn.close(); an open transaction is rolled back; the exception,
\* if any, goes on to main
Close(r) ==
    /\ pc[r] = "close"
    /\ conn' = [conn EXCEPT ![r] = "closed"]
    /\ txw' = [txw EXCEPT ![r] = <<>>]
    /\ txc' = [txc EXCEPT ![r] = FALSE]
    /\ Goto(r, IF err[r] = "none" THEN "finish" ELSE "save_raised")
    /\ UNCHANGED <<job, env, clock, scanv, marginv, batch, log, upi, err, store,
                   exists, histv>>

\* main, except Exception around save_*: logger.exception
MainExceptSave(r) ==
    /\ pc[r] = "save_raised"
    /\ Log(r, "save_failed")
    /\ Goto(r, "finish")
    /\ UNCHANGED <<job, env, clock, scanv, marginv, batch, dbv, histv>>

\* cron_job: main has returned; logger.info('Finished crawling ...')
Finish(r) ==
    /\ pc[r] = "finish"
    /\ Log(r, "finish")
    /\ Goto(r, "done")
    /\ UNCHANGED <<job, env, clock, scanv, marginv, batch, dbv, histv>>

\* ------------------------------------------------- one cron_job invocation
Quiet ==
    /\ doc = [r \in Runs |-> <<>>]
    /\ idx = [r \in Runs |-> 0]
    /\ fa = [r \in Runs |-> None]
    /\ fb = [r \in Runs |-> None]
    /\ day = [r \in Runs |-> 0]
    /\ exc = [r \in Runs |-> "none"]
    /\ codes = [r \in Runs |-> <<>>]
    /\ ci = [r \in Runs |-> 0]
    /\ last = [r \in Runs |-> NoResp]
    /\ conn = [r \in Runs |-> "none"]
    /\ txw = [r \in Runs |-> <<>>]
    /\ txc = [r \in Runs |-> FALSE]
    /\ upi = [r \in Runs |-> 0]
    /\ err = [r \in Runs |-> "none"]
    /\ saves = [r \in Runs |-> 0]
    /\ applied = [r \in Runs |-> <<>>]
    /\ clock = 0
    /\ overlap = FALSE
    /\ store = [t \in Tables |-> {}]
    /\ latest = [t \in Tables |-> {}]
    /\ env = [r \in Runs |-> NoEnv]

\* Run 1 is started by cron on a fresh database; run 2 is not started.
Init ==
    /\ Quiet
    /\ exists = [t \in Tables |-> FALSE]
    /\ \E j \in Jobs : job = [r \in Runs |-> j]
    /\ pc = [r \in Runs |-> IF r = 1 THEN "cron" ELSE "idle"]
    /\ batch = [r \in Runs |-> <<>>]
    /\ log = [r \in Runs |-> <<>>]

Next ==
    \E r \in Runs :
        \/ CronJob(r)
        \/ FetchFail(r)
        \/ FetchNoTable(r)
        \/ Fetch(r)
        \/ ScanRow(r)
        \/ AfterLoop(r)
        \/ MainExceptFetch(r)
        \/ ConnParams(r)
        \/ MainMargin(r)
        \/ FetchMargin(r)
        \/ LoopBody(r)
        \/ AfterLoopMargin(r)
        \/ Connect(r)
        \/ ConnectFail(r)
        \/ CreateTable(r)
        \/ ExecFail(r)
        \/ Upsert(r)
        \/ Commit(r)
        \/ Close(r)
        \/ MainExceptSave(r)
        \/ Finish(r)

Spec == Init /\ [][Next]_vars

\* ------------------------------------------ two overlapping save_* calls
\* Two runs of one job, each about to call save_* with the rows it assembled;
\* each ends where save_* returns to main ("finish") or raises ("save_raised").
DbVals == {<<Num(1), Num(1)>>, <<Num(2), Num(2)>>}

MarginVal(r) == IF r = 1 THEN <<Num(1), Str(<<>>)>> ELSE <<Num(2), Str(<<"B">>)>>

MarginRows(r) == {Row(<<0, c>>, MarginVal(r)) : c \in {<<"A">>, <<"B">>}}

DbBatches(j, r) ==
    IF j = "margin" THEN SeqsUpTo(MarginRows(r), MaxBatch) \ {<<>>}
    ELSE {<<Row(<<d>>, v)>> : d \in Times, v \in DbVals}

InitDb ==
    /\ Quiet
    /\ \E e \in BOOLEAN : exists = [t \in Tables |-> e]
    /\ \E j \in Jobs : job = [r \in Runs |-> j]
    /\ pc = [r \in Runs |-> "connect"]
    /\ \E b1 \in DbBatches(job[1], 1), b2 \in DbBatches(job[1], 2) :
          batch = [r \in Runs |-> IF r = 1 THEN b1 ELSE b2]
    /\ log = [r \in Runs |-> <<"start">>]

NextDb ==
    \E r \in Runs :
        \/ Connect(r)
        \/ ConnectFail(r)
        \/ CreateTable(r)
        \/ CreateResume(r)
        \/ ExecFail(r)
        \/ Upsert(r)
        \/ UpsertDeadlock(r)
        \/ Commit(r)
        \/ Close(r)

SpecDb == InitDb /\ [][NextDb]_vars

\* ================================================================== claims
ScanRuns == {r \in Runs : job[r] \in {"fx", "sbv"}}

\* The row matches the label of the first field (USD/VND, O/N), of the
\* second field (USD/CNY, 1W or its localized form)
LabelA(j, cells) ==
    /\ cells # <<>>
    /\ IF j = "fx" THEN MatchUsdVnd(Upper(Join(cells))) ELSE MatchOn(cells[1])

LabelB(j, cells) ==
    /\ cells # <<>>
    /\ IF j = "fx" THEN MatchUsdCny(Upper(Join(cells))) ELSE Match1w(cells[1])

RowsA(r) == {i \in 1..Len(doc[r]) : LabelA(job[r], doc[r][i])}
RowsB(r) == {i \in 1..Len(doc[r]) : LabelB(job[r], doc[r][i])}

HasValue(cells) == Len(cells) >= 2 /\ parse_rate(cells[2]) # ValueError

Returning(r) == pc[r] = "scanned" /\ fa[r] # None /\ fb[r] # None

AllDigits(s) == s # <<>> /\ \A i \in 1..Len(s) : s[i] \in Digits

ThousandsCommaForm(s) ==
    /\ Cardinality({i \in 1..Len(s) : s[i] = ","}) = 1
    /\ LET parts == Split(s, ",")
           groups == Split(parts[1], ".")
       IN  /\ AllDigits(parts[2])
           /\ Len(groups) >= 2
           /\ AllDigits(groups[1]) /\ Len(groups[1]) <= 3
           /\ \A g \in 2..Len(groups) : AllDigits(groups[g]) /\ Len(groups[g]) = 3

\* The number such a text denotes: 1.234,56 is 1234.56
LocaleValue(s) == FloatOf(Replace(Strip(s, "."), ",", "."))

\* The loop has just called parse_rate on the second cell of row idx
ParsedCell(r) ==
    /\ pc[r] \in {"scan", "scanned", "raised"}
    /\ idx[r] >= 1 /\ idx[r] <= Len(doc[r])
    /\ Len(doc[r][idx[r]]) >= 2
    /\ LabelA(job[r], doc[r][idx[r]]) \/ LabelB(job[r], doc[r][idx[r]])

\* C7: parse_rate accepts every text of the form 1.234,56 (period for the
\* thousands, comma for the decimals) and returns the number it denotes,
\* 1234.56: it raises no ValueError.
C7_ThousandsCommaDecimalAccepted ==
    \A r \in ScanRuns :
        (ParsedCell(r) /\ ThousandsCommaForm(doc[r][idx[r]][2]))
            => /\ exc[r] # "ValueError"
               /\ LocaleValue(doc[r][idx[r]][2]) \in {fa[r], fb[r]}

\* The rows among the first n whose value the scan reads for the first field
\* and for the second field: a row matching both labels counts for the first
ReadA(r, n) == {i \in 1..n : LabelA(job[r], doc[r][i]) /\ Len(doc[r][i]) >= 2}

ReadB(r, n) ==
    {i \in 1..n : /\ LabelB(job[r], doc[r][i]) /\ Len(doc[r][i]) >= 2
                  /\ ~LabelA(job[r], doc[r][i])}

Min(S) == CHOOSE x \in S : \A y \in S : x <= y
Max(S) == CHOOSE x \in S : \A y \in S : x >= y

Scanning(r) == pc[r] \in {"scan", "scanned"} /\ doc[r] # <<>>


\* Scanning stops as soon as both fields are found, and no sooner
StopsWhenAllFound(r) ==
    /\ pc[r] = "scan" => (fa[r] = None \/ fb[r] = None)
    /\ (pc[r] = "scanned" /\ idx[r] < Len(doc[r])) => (fa[r] # None /\ fb[r] # None)
    /\ (fa[r] # None /\ fb[r] # None) =>
          \A n \in 0..(idx[r] - 1) : ReadA(r, n) = {} \/ ReadB(r, n) = {}

\* C8 as stated: the value kept for a field is that of the first row matching
\* its label, later rows matching the same label never overwrite it, and
\* scanning stops as soon as all fields are found.
C8_FirstMatchWins ==
    \A r \in ScanRuns :
        Scanning(r) =>
            /\ StopsWhenAllFound(r)
            /\ fa[r] # None =>
                  fa[r] = parse_rate(doc[r][Min(ReadA(r, idx[r]))][2])
            /\ fb[r] # None =>
                  fb[r] = parse_rate(doc[r][Min(ReadB(r, idx[r]))][2])

\* C8 amended: scanning stops as soon as all fields are found and the rows
\* after that point are never read; among the rows scanned, the value kept
\* for a field is that of the last row matching its label.
C8_LastMatchBeforeStopWins ==
    \A r \in ScanRuns :
        Scanning(r) =>
            /\ StopsWhenAllFound(r)
            /\ fa[r] # None <=> ReadA(r, idx[r]) # {}
            /\ fb[r] # None <=> ReadB(r, idx[r]) # {}
            /\ fa[r] # None =>
                  fa[r] = parse_rate(doc[r][Max(ReadA(r, idx[r]))][2])
            /\ fb[r] # None =>
                  fb[r] = parse_rate(doc[r][Max(ReadB(r, idx[r]))][2])

\* A second row matching the label of the first field has replaced the value
\* of an earlier one, and the scan has ended with both fields found.
C8_Witness ==
    \E r \in ScanRuns :
        /\ Returning(r)
        /\ Cardinality(ReadA(r, idx[r])) = 2
        /\ fa[r] # parse_rate(doc[r][Min(ReadA(r, idx[r]))][2])

Logged(r, msg) == \E i \in 1..Len(log[r]) : log[r][i] = msg
Count(r, msg) == Cardinality({i \in 1..Len(log[r]) : log[r][i] = msg})
Ended(r) == pc[r] \in {"done", "crashed"}

\* The fetch of a single-entity run fails: it has raised, or it is about to
\* (the loop is over and a value is missing), or main has logged the failure
FetchFailing(r) ==
    \/ pc[r] = "raised"
    \/ pc[r] = "scanned" /\ (fa[r] = None \/ fb[r] = None)
    \/ Logged(r, "fetch_failed")

\* C2: in the fx and sbv jobs, when the fetch, the table lookup, the
\* extraction of a field or the normalization fails, main returns without
\* calling save_*: no connection is opened and no row is written; a page
\* that lacks one of the two fields is such a failure.
C2_FetchFailureSkipsSave ==
    \A r \in ScanRuns :
        /\ FetchFailing(r) =>
              /\ saves[r] = 0 /\ conn[r] = "none" /\ batch[r] = <<>>
              /\ store[TableOf(job[r])] = {}
              /\ pc[r] \in {"raised", "scanned", "finish", "done"}
        /\ ( /\ pc[r] = "scanned"
             /\ ReadA(r, Len(doc[r])) = {} \/ ReadB(r, Len(doc[r])) = {} )
              => FetchFailing(r)

\* A run whose page held the first field only has returned and finished.
C2_Witness ==
    \E r \in ScanRuns :
        /\ pc[r] = "done" /\ exc[r] = "RuntimeError"
        /\ ReadA(r, Len(doc[r])) # {} /\ ReadB(r, Len(doc[r])) = {}
        /\ Logged(r, "fetch_failed") /\ Logged(r, "finish")
        /\ saves[r] = 0 /\ store[TableOf(job[r])] = {}

\* C4: no exception leaves main: a run never crashes, and a run that has
\* ended has logged its finish marker after its start marker.
C4_NoExceptionEscapes ==
    \A r \in Runs :
        /\ pc[r] # "crashed"
        /\ (Ended(r) /\ Logged(r, "start")) => Logged(r, "finish")

\* C3: in the margin job every stock code is fetched, a code that fails is
\* logged and skipped and the loop goes on; when the run has ended, the N
\* codes have all been taken, the rows handed to save_margin_details in one
\* call are N minus the M logged failures, and there is no call when no code
\* succeeded.
C3_PartialFailureTolerance ==
    \A r \in Runs :
        job[r] = "margin" =>
            /\ Len(batch[r]) + Count(r, "margin_failed") = ci[r]
            /\ Count(r, "fetched") = Len(batch[r])
            /\ Ended(r) =>
                  /\ ci[r] = Len(codes[r])
                  /\ saves[r] = IF batch[r] # <<>> THEN 1 ELSE 0
                  /\ (batch[r] # <<>> /\ err[r] = "none") => applied[r] = batch[r]

IsNumber(v) == v.t = "num"
NumberOrAbsent(v) == v = Absent \/ IsNumber(v)

\* C10: for a JSON object, fetch_margin_data raises exactly when neither
\* marginRoom nor margin_room is present; the value of marginRoom is returned
\* whenever it is present, whatever the number (0 too), else the value of
\* margin_room; the category never makes it raise and is empty when absent.
C10_MarginRoomPresence ==
    \A r \in Runs :
        ( /\ pc[r] = "fetched" /\ last[r].resp.kind = "object"
          /\ NumberOrAbsent(last[r].resp.marginRoom)
          /\ NumberOrAbsent(last[r].resp.margin_room) )
            => LET d == last[r].resp
                   out == last[r].out
               IN  /\ out.t = "exc" <=> (d.marginRoom = Absent /\ d.margin_room = Absent)
                   /\ d.marginRoom # Absent =>
                         out.t = "ok" /\ out.margin_room = d.marginRoom
                   /\ (d.marginRoom = Absent /\ d.margin_room # Absent) =>
                         out.t = "ok" /\ out.margin_room = d.margin_room
                   /\ (out.t = "ok" /\ d.industryName = Absent /\ d.sector = Absent)
                         => out.sector = Str(<<>>)

\* ------------------------------------------------------ claims on the store
UniqueKeys(S) == \A x \in S, y \in S : x.key = y.key => x = y

Committed(r) == applied[r] # <<>>

\* C1: the table holds one row per primary key, and that row carries the
\* columns of the last committed save for that key: saving a record again
\* changes nothing, saving other values under the same key overwrites them.
C1_IdempotentUpsert ==
    \A t \in Tables : UniqueKeys(store[t]) /\ store[t] = latest[t]

\* Both runs have committed a row under the same key; one row is stored.
C1_Witness ==
    /\ \A r \in Runs : pc[r] = "finish" /\ Committed(r)
    /\ \E i \in 1..Len(batch[1]), j \in 1..Len(batch[2]) :
          batch[1][i].key = batch[2][j].key
    /\ \E t \in Tables : Cardinality(store[t]) = 1

\* C5: the statements of one save_* call form one transaction committed
\* once: the rows of the call become visible all together or not at all,
\* none is visible after a failed statement or a failed commit, and the
\* store holds rows of committed transactions only.
C5_AllOrNothing ==
    /\ \A r \in Runs :
          /\ applied[r] = <<>> \/ applied[r] = batch[r]
          /\ err[r] # "none" => applied[r] = <<>>
          /\ conn[r] = "open" /\ pc[r] # "close" => applied[r] = <<>>
    /\ \A t \in Tables : store[t] = latest[t]

\* The second statement of a two-row call has failed after the first row was
\* executed: nothing of the call is in the table.
C5_Witness ==
    \E r \in Runs :
        /\ pc[r] = "save_raised" /\ err[r] = "OperationalError"
        /\ Len(batch[r]) = 2 /\ upi[r] = 1
        /\ applied[r] = <<>> /\ store[TableOf(job[r])] = {}

\* Every stored row is, in all its columns, a row that a run handed over
NoMixedRow ==
    \A t \in Tables : \A x \in store[t] :
        \E r \in Runs : \E i \in 1..Len(batch[r]) : batch[r][i] = x

\* C9 as stated: with two overlapping runs writing the same key, one row is
\* stored for the key, with the columns of the run that committed last, no
\* mixed row, and neither run fails with a duplicate-key error.
C9_OverlapNoDuplicateKeyError ==
    /\ \A t \in Tables : UniqueKeys(store[t]) /\ store[t] = latest[t]
    /\ NoMixedRow
    /\ \A r \in Runs : err[r] # "UniqueViolation"

\* C9 amended: one row per key with the columns of the run that committed
\* last and no mixed row; a duplicate-key error comes from CREATE TABLE IF
\* NOT EXISTS alone, to a run that found the table missing while the other
\* run was creating it: that run has upserted nothing and writes nothing.
C9_OverlapLastCommitWins ==
    /\ \A t \in Tables : UniqueKeys(store[t]) /\ store[t] = latest[t]
    /\ NoMixedRow
    /\ \A r \in Runs :
          err[r] = "UniqueViolation" =>
              /\ overlap /\ exists[TableOf(job[r])]
              /\ upi[r] = 0 /\ txw[r] = <<>> /\ applied[r] = <<>>
              /\ \E s \in Other(r) : Committed(s)

\* Two runs whose connections were open together have both committed, under
\* the same key, rows that differ: one row is stored.
C9_Witness ==
    /\ overlap
    /\ \A r \in Runs : pc[r] = "finish" /\ Committed(r)
    /\ \E i \in 1..Len(batch[1]), j \in 1..Len(batch[2]) :
          /\ batch[1][i].key = batch[2][j].key
          /\ batch[1][i].val # batch[2][j].val
    /\ \E t \in Tables : Cardinality(store[t]) = 1
====
